---------------------------- MODULE Spec2Model ----------------------------
(***************************************************************************)
(* Rewards program: the reward-points calculator of                        *)
(* src/src/utils/pagination.js (calculateRewardPoints and the aggregations *)
(* built on it), modelled as a state machine whose actions are calls of    *)
(* the exported functions.                                                 *)
(*                                                                         *)
(* JavaScript values are records [t |-> tag, v |-> payload].  A finite     *)
(* number is held in hundredths (Scale), so 120.25 is Fin(12025); for the  *)
(* amounts used here (at most two decimals) the tier arithmetic on IEEE    *)
(* doubles is exact, so the fixed-point value is the value the code        *)
(* computes.  Strings are sequences of one-character strings.              *)
(***************************************************************************)
EXTENDS Integers, Sequences, FiniteSets, TLC

(***************************************************************************)
(* Configuration, src/src/constants.js                                     *)
(***************************************************************************)
POINTS_PER_DOLLAR_OVER_100 == 2
POINTS_PER_DOLLAR_50_TO_100 == 1
THRESHOLD_50 == 50
THRESHOLD_100 == 100

\* Hundredths per unit: the fixed-point representation of a JS number.
Scale == 100

(***************************************************************************)
(* JavaScript values                                                       *)
(***************************************************************************)
Fin(c) == [t |-> "fin", v |-> c]
NaN == [t |-> "nan", v |-> 0]
PosInf == [t |-> "inf", v |-> 0]
NegInf == [t |-> "ninf", v |-> 0]
Undefined == [t |-> "undefined", v |-> 0]
Null == [t |-> "null", v |-> 0]
Bool(b) == [t |-> "boolean", v |-> b]
Str(s) == [t |-> "string", v |-> s]
Arr(xs) == [t |-> "array", v |-> xs]
Obj(fields) == [t |-> "object", v |-> fields]

\* A whole number of units as a JS number.
Num(n) == Fin(n * Scale)

NumberTags == {"fin", "nan", "inf", "ninf"}
IsNumber(x) == x.t \in NumberTags

\* Equality of two JS numbers as model values (tag first, then payload).
SameNumber(x, y) == x.t = y.t /\ (x.t = "fin" => x.v = y.v)

(***************************************************************************)
(* Arithmetic and comparison on JS numbers (IEEE semantics for NaN and     *)
(* the infinities, exact fixed point for finite values).                   *)
(***************************************************************************)
isNaN(x) == x.t = "nan"

\* x <= y
JsLe(x, y) ==
  CASE x.t = "nan" \/ y.t = "nan" -> FALSE
    [] x.t = "ninf" -> TRUE
    [] y.t = "inf" -> TRUE
    [] x.t = "inf" -> FALSE
    [] y.t = "ninf" -> FALSE
    [] OTHER -> x.v <= y.v

\* x > y
JsGt(x, y) ==
  CASE x.t = "nan" \/ y.t = "nan" -> FALSE
    [] x.t = "ninf" -> FALSE
    [] y.t = "inf" -> FALSE
    [] x.t = "inf" -> TRUE
    [] y.t = "ninf" -> TRUE
    [] OTHER -> x.v > y.v

\* x + y
JsAdd(x, y) ==
  CASE x.t = "nan" \/ y.t = "nan" -> NaN
    [] x.t = "inf" /\ y.t = "ninf" -> NaN
    [] x.t = "ninf" /\ y.t = "inf" -> NaN
    [] x.t = "inf" \/ y.t = "inf" -> PosInf
    [] x.t = "ninf" \/ y.t = "ninf" -> NegInf
    [] OTHER -> Fin(x.v + y.v)

\* -x
JsNeg(x) ==
  CASE x.t = "inf" -> NegInf
    [] x.t = "ninf" -> PosInf
    [] x.t = "fin" -> Fin(0 - x.v)
    [] OTHER -> NaN

\* x - y
JsSub(x, y) == JsAdd(x, JsNeg(y))

\* x * y (a finite product is exact when one factor is a whole number)
JsMul(x, y) ==
  CASE x.t = "nan" \/ y.t = "nan" -> NaN
    [] x.t = "fin" /\ y.t = "fin" -> Fin((x.v * y.v) \div Scale)
    [] (x.t = "fin" /\ x.v = 0) \/ (y.t = "fin" /\ y.v = 0) -> NaN
    [] OTHER ->
         LET negx == x.t = "ninf" \/ (x.t = "fin" /\ x.v < 0)
             negy == y.t = "ninf" \/ (y.t = "fin" /\ y.v < 0)
         IN IF negx = negy THEN PosInf ELSE NegInf

\* Math.round with halves rounded up drops the fraction of x + 1/2.
MathRoundHalfDown(x) ==
  IF x.t = "fin" THEN Fin(((x.v + (Scale \div 2) - 1) \div Scale) * Scale) ELSE x

\* Math.round: the nearest integer, a half rounded towards +Infinity; NaN and
\* the infinities are returned unchanged.
MathRound(x) ==
  IF x.t = "fin" THEN Fin(((x.v + (Scale \div 2)) \div Scale) * Scale) ELSE x

(***************************************************************************)
(* Strings: parsing (StringToNumber) and printing (Number::toString,       *)
(* Array.prototype.join), the conversions behind Number(amount).           *)
(***************************************************************************)
DigitChars == <<"0", "1", "2", "3", "4", "5", "6", "7", "8", "9">>
IsDigit(c) == \E i \in 1..Len(DigitChars) : DigitChars[i] = c
DigitVal(c) == (CHOOSE i \in 1..Len(DigitChars) : DigitChars[i] = c) - 1
AllDigits(s) == \A i \in 1..Len(s) : IsDigit(s[i])

RECURSIVE DigitsVal(_)
DigitsVal(s) ==
  IF s = <<>> THEN 0
  ELSE DigitsVal(SubSeq(s, 1, Len(s) - 1)) * 10 + DigitVal(s[Len(s)])

RECURSIVE NatToChars(_)
NatToChars(n) ==
  IF n < 10 THEN <<DigitChars[n + 1]>>
  ELSE NatToChars(n \div 10) \o <<DigitChars[(n % 10) + 1]>>

\* The value, in hundredths, of the digits after a decimal point.
FracVal(fp) ==
  IF Len(fp) = 0 THEN 0
  ELSE IF Len(fp) = 1 THEN DigitVal(fp[1]) * 10
  ELSE DigitVal(fp[1]) * 10 + DigitVal(fp[2])

RECURSIVE Trim(_)
Trim(s) ==
  IF s = <<>> THEN s
  ELSE IF Head(s) = " " THEN Trim(Tail(s))
  ELSE IF s[Len(s)] = " " THEN Trim(SubSeq(s, 1, Len(s) - 1))
  ELSE s

InfinityChars == <<"I", "n", "f", "i", "n", "i", "t", "y">>

\* StringToNumber: white space is trimmed, the empty string is 0, then an
\* optional sign followed by Infinity or by decimal digits with an optional
\* fraction; anything else is NaN.
StringToNumber(s) ==
  LET t == Trim(s)
      neg == t # <<>> /\ t[1] = "-"
      signed == t # <<>> /\ (t[1] = "-" \/ t[1] = "+")
      body == IF signed THEN Tail(t) ELSE t
      dots == {i \in 1..Len(body) : body[i] = "."}
      mag(c) == IF neg THEN Fin(0 - c) ELSE Fin(c)
  IN IF t = <<>> THEN Fin(0)
     ELSE IF body = InfinityChars THEN (IF neg THEN NegInf ELSE PosInf)
     ELSE IF dots = {}
       THEN IF body # <<>> /\ AllDigits(body)
              THEN mag(DigitsVal(body) * Scale) ELSE NaN
     ELSE IF Cardinality(dots) = 1
       THEN LET i == CHOOSE j \in dots : TRUE
                ip == SubSeq(body, 1, i - 1)
                fp == SubSeq(body, i + 1, Len(body))
            IN IF AllDigits(ip) /\ AllDigits(fp) /\ (ip # <<>> \/ fp # <<>>)
                 THEN mag(DigitsVal(ip) * Scale + FracVal(fp)) ELSE NaN
     ELSE NaN

\* Number::toString of a finite value held in hundredths.
FinToChars(c) ==
  LET a == IF c < 0 THEN 0 - c ELSE c
      f == a % Scale
      fchars == IF f = 0 THEN <<>>
                ELSE IF f % 10 = 0 THEN <<".", DigitChars[(f \div 10) + 1]>>
                ELSE <<".", DigitChars[(f \div 10) + 1], DigitChars[(f % 10) + 1]>>
  IN (IF c < 0 THEN <<"-">> ELSE <<>>) \o NatToChars(a \div Scale) \o fchars

\* ToString of a value; an array is its elements joined by commas, where a
\* null or undefined element prints as the empty string.
RECURSIVE ToStringJS(_)
RECURSIVE ArrayJoin(_)
ArrayJoin(xs) ==
  IF xs = <<>> THEN <<>>
  ELSE LET h == Head(xs)
           hs == IF h.t = "null" \/ h.t = "undefined" THEN <<>> ELSE ToStringJS(h)
       IN IF Len(xs) = 1 THEN hs ELSE hs \o <<",">> \o ArrayJoin(Tail(xs))

ToStringJS(x) ==
  CASE x.t = "string" -> x.v
    [] x.t = "fin" -> FinToChars(x.v)
    [] x.t = "nan" -> <<"N", "a", "N">>
    [] x.t = "inf" -> InfinityChars
    [] x.t = "ninf" -> <<"-">> \o InfinityChars
    [] x.t = "undefined" -> <<"u", "n", "d", "e", "f", "i", "n", "e", "d">>
    [] x.t = "null" -> <<"n", "u", "l", "l">>
    [] x.t = "boolean" ->
         IF x.v THEN <<"t", "r", "u", "e">> ELSE <<"f", "a", "l", "s", "e">>
    [] x.t = "array" -> ArrayJoin(x.v)
    [] OTHER -> <<"[", "o", "b", "j", "e", "c", "t", " ", "O", "b", "j", "e", "c", "t", "]">>

\* Number(value): ToNumber, with an object first converted to its string.
Number(x) ==
  CASE IsNumber(x) -> x
    [] x.t = "undefined" -> NaN
    [] x.t = "null" -> Fin(0)
    [] x.t = "boolean" -> IF x.v THEN Num(1) ELSE Num(0)
    [] x.t = "string" -> StringToNumber(x.v)
    [] OTHER -> StringToNumber(ToStringJS(x))

(***************************************************************************)
(* calculateRewardPoints                                                   *)
(***************************************************************************)
\* isNaN(numAmount) || numAmount <= 0
InvalidAmount(numAmount) == isNaN(numAmount) \/ JsLe(numAmount, Num(0))

\* The tiers with the lower tier paid from 0 instead of from THRESHOLD_50.
TierPointsFromZero(numAmount) ==
  IF JsGt(numAmount, Num(THRESHOLD_100))
    THEN JsAdd(JsMul(JsSub(numAmount, Num(THRESHOLD_100)), Num(POINTS_PER_DOLLAR_OVER_100)),
               JsMul(Num(THRESHOLD_100 - THRESHOLD_50), Num(POINTS_PER_DOLLAR_50_TO_100)))
    ELSE JsMul(numAmount, Num(POINTS_PER_DOLLAR_50_TO_100))

\* The tiers with the lower tier's points left out above THRESHOLD_100.
TierPointsNoLowerTier(numAmount) ==
  IF JsGt(numAmount, Num(THRESHOLD_100))
    THEN JsMul(JsSub(numAmount, Num(THRESHOLD_100)), Num(POINTS_PER_DOLLAR_OVER_100))
    ELSE IF JsGt(numAmount, Num(THRESHOLD_50))
      THEN JsMul(JsSub(numAmount, Num(THRESHOLD_50)), Num(POINTS_PER_DOLLAR_50_TO_100))
      ELSE Num(0)

\* let points = 0, then the two tiers (the unrounded points).
TierPoints(numAmount) ==
  IF JsGt(numAmount, Num(THRESHOLD_100))
    THEN LET over100 == JsSub(numAmount, Num(THRESHOLD_100))
             p1 == JsAdd(Num(0), JsMul(over100, Num(POINTS_PER_DOLLAR_OVER_100)))
             between50And100 == Num(THRESHOLD_100 - THRESHOLD_50)
         IN JsAdd(p1, JsMul(between50And100, Num(POINTS_PER_DOLLAR_50_TO_100)))
    ELSE IF JsGt(numAmount, Num(THRESHOLD_50))
      THEN LET between50And100 == JsSub(numAmount, Num(THRESHOLD_50))
           IN JsAdd(Num(0), JsMul(between50And100, Num(POINTS_PER_DOLLAR_50_TO_100)))
      ELSE Num(0)

calculateRewardPoints(amount) ==
  LET numAmount == Number(amount)
  IN IF InvalidAmount(numAmount) THEN Num(0)
     ELSE MathRound(TierPoints(numAmount))

(***************************************************************************)
(* Property access, truthiness, objects                                    *)
(***************************************************************************)
\* A call's outcome: the value returned, or a TypeError thrown.
Returned(val) == [threw |-> FALSE, val |-> val]
Threw == [threw |-> TRUE, val |-> Undefined]

\* Reading a property of null or undefined throws.
CanRead(x) == x.t # "null" /\ x.t # "undefined"

\* x[name] for a readable x: the field of an object, undefined when absent
\* (and for the primitives and arrays used here).
Get(x, name) ==
  IF x.t = "object" /\ name \in DOMAIN x.v THEN x.v[name] ELSE Undefined

\* !x
Falsy(x) ==
  CASE x.t = "undefined" \/ x.t = "null" \/ x.t = "nan" -> TRUE
    [] x.t = "fin" -> x.v = 0
    [] x.t = "boolean" -> ~x.v
    [] x.t = "string" -> x.v = <<>>
    [] OTHER -> FALSE

\* !transactions || !Array.isArray(transactions)
NotAnArray(x) == Falsy(x) \/ x.t # "array"

\* An object whose keys are kept in insertion order: a sequence of
\* [key, val] entries with distinct keys.
EmptyMap == [t |-> "map", v |-> <<>>]
HasKey(m, key) == \E i \in 1..Len(m.v) : m.v[i].key = key
MapGet(m, key) ==
  IF HasKey(m, key)
    THEN m.v[CHOOSE i \in 1..Len(m.v) : m.v[i].key = key].val
    ELSE Undefined
MapSet(m, key, val) ==
  IF HasKey(m, key)
    THEN [m EXCEPT !.v = [i \in 1..Len(m.v) |->
                            IF m.v[i].key = key THEN [key |-> key, val |-> val]
                            ELSE m.v[i]]]
    ELSE [m EXCEPT !.v = Append(m.v, [key |-> key, val |-> val])]

(***************************************************************************)
(* Date: new Date(value), getFullYear(), getMonth() in the host's local    *)
(* time.  A time value is held in hours since 1970-01-01T00:00Z; the       *)
(* host's offset from UTC is a whole number of hours.                      *)
(***************************************************************************)
InvalidDate == [valid |-> FALSE, hours |-> 0]

IsLeap(y) == (y % 4 = 0 /\ y % 100 # 0) \/ y % 400 = 0
DaysInMonth(y, m) ==
  IF m = 2 THEN (IF IsLeap(y) THEN 29 ELSE 28)
  ELSE IF m \in {4, 6, 9, 11} THEN 30 ELSE 31

\* Days from 1970-01-01 to the civil date y-m-d (MakeDay).
DaysFromCivil(y, m, d) ==
  LET yy == IF m <= 2 THEN y - 1 ELSE y
      era == yy \div 400
      yoe == yy - era * 400
      mp == IF m > 2 THEN m - 3 ELSE m + 9
      doy == (153 * mp + 2) \div 5 + d - 1
      doe == yoe * 365 + yoe \div 4 - yoe \div 100 + doy
  IN era * 146097 + doe - 719468

\* The civil year and month (1..12) of a day number (YearFromTime,
\* MonthFromTime).
CivilFromDays(n) ==
  LET z == n + 719468
      era == z \div 146097
      doe == z - era * 146097
      yoe == (doe - doe \div 1460 + doe \div 36524 - doe \div 146096) \div 365
      doy == doe - (365 * yoe + yoe \div 4 - yoe \div 100)
      mp == (5 * doy + 2) \div 153
      m == IF mp < 10 THEN mp + 3 ELSE mp - 9
      y == yoe + era * 400 + (IF m <= 2 THEN 1 ELSE 0)
  IN [year |-> y, month |-> m]

\* The date-only ISO form YYYY-MM-DD of a calendar date: midnight UTC.
\* The other strings passed here hold no date and give an Invalid Date
\* (strings in other date formats, whose parse depends on the engine, are
\* not among the inputs).
ParseDateString(s) ==
  IF Len(s) = 10 /\ s[5] = "-" /\ s[8] = "-"
     /\ AllDigits(SubSeq(s, 1, 4)) /\ AllDigits(SubSeq(s, 6, 7))
     /\ AllDigits(SubSeq(s, 9, 10))
    THEN LET y == DigitsVal(SubSeq(s, 1, 4))
             m == DigitsVal(SubSeq(s, 6, 7))
             d == DigitsVal(SubSeq(s, 9, 10))
         IN IF m \in 1..12 /\ d \in 1..DaysInMonth(y, m)
              THEN [valid |-> TRUE, hours |-> DaysFromCivil(y, m, d) * 24]
              ELSE InvalidDate
    ELSE InvalidDate

\* new Date(value): the value's primitive is parsed when it is a string (an
\* array or object converts to its string); otherwise Number(value) is a
\* count of milliseconds past the epoch (0 for null), and NaN or an infinity
\* gives an Invalid Date.
NewDate(x) ==
  IF x.t = "string" THEN ParseDateString(x.v)
  ELSE IF x.t = "array" \/ x.t = "object" THEN ParseDateString(ToStringJS(x))
  ELSE LET n == Number(x)
       IN IF n.t = "fin"
            THEN [valid |-> TRUE, hours |-> (n.v \div Scale) \div 3600000]
            ELSE InvalidDate

\* The local calendar fields of a date on a host tz hours ahead of UTC.
LocalFields(date, tz) == CivilFromDays((date.hours + tz) \div 24)

\* date.getFullYear()
getFullYear(date, tz) ==
  IF date.valid THEN Num(LocalFields(date, tz).year) ELSE NaN

\* date.getMonth(): 0..11
getMonth(date, tz) ==
  IF date.valid THEN Num(LocalFields(date, tz).month - 1) ELSE NaN

\* String.prototype.padStart(n, fill) for a one-character fill.
RECURSIVE padStart(_, _, _)
padStart(s, n, fill) ==
  IF Len(s) >= n THEN s ELSE padStart(<<fill>> \o s, n, fill)

\* `${date.getFullYear()}-${String(date.getMonth() + 1).padStart(2, '0')}`
MonthYear(date, tz) ==
  ToStringJS(getFullYear(date, tz)) \o <<"-">>
    \o padStart(ToStringJS(JsAdd(getMonth(date, tz), Num(1))), 2, "0")

(***************************************************************************)
(* The aggregations.  reduce, forEach and map visit the elements in order; *)
(* a TypeError thrown by a callback ends the call.                         *)
(***************************************************************************)
\* transactions.reduce((total, t) => total + calculateRewardPoints(t.amount), 0)
RECURSIVE ReduceTotal(_, _)
ReduceTotal(xs, total) ==
  IF xs = <<>> THEN Returned(total)
  ELSE IF ~CanRead(Head(xs)) THEN Threw
  ELSE ReduceTotal(Tail(xs),
                   JsAdd(total, calculateRewardPoints(Get(Head(xs), "amount"))))

\* The total with the unrounded points added up and the sum rounded once.
RECURSIVE ReduceUnrounded(_, _)
ReduceUnrounded(xs, total) ==
  IF xs = <<>> THEN Returned(MathRound(total))
  ELSE IF ~CanRead(Head(xs)) THEN Threw
  ELSE LET numAmount == Number(Get(Head(xs), "amount"))
       IN ReduceUnrounded(Tail(xs),
            JsAdd(total, IF InvalidAmount(numAmount) THEN Num(0)
                         ELSE TierPoints(numAmount)))

calculateTotalRoundedOnce(transactions) ==
  IF NotAnArray(transactions) THEN Returned(Num(0))
  ELSE ReduceUnrounded(transactions.v, Num(0))

calculateTotalRewardPoints(transactions) ==
  IF NotAnArray(transactions) THEN Returned(Num(0))
  ELSE ReduceTotal(transactions.v, Num(0))

\* The forEach callback with the month's points replaced, not added to.
MonthStepOverwrite(monthlyPoints, transaction, tz) ==
  MapSet(monthlyPoints, MonthYear(NewDate(Get(transaction, "date")), tz),
         calculateRewardPoints(Get(transaction, "amount")))

\* One call of the forEach callback on monthlyPoints.
MonthStep(monthlyPoints, transaction, tz) ==
  LET date == NewDate(Get(transaction, "date"))
      monthYear == MonthYear(date, tz)
      m0 == IF Falsy(MapGet(monthlyPoints, monthYear))
              THEN MapSet(monthlyPoints, monthYear, Num(0))
              ELSE monthlyPoints
  IN MapSet(m0, monthYear,
            JsAdd(MapGet(m0, monthYear),
                  calculateRewardPoints(Get(transaction, "amount"))))

RECURSIVE ForEachMonth(_, _, _)
ForEachMonth(xs, monthlyPoints, tz) ==
  IF xs = <<>> THEN Returned(monthlyPoints)
  ELSE IF ~CanRead(Head(xs)) THEN Threw
  ELSE ForEachMonth(Tail(xs), MonthStep(monthlyPoints, Head(xs), tz), tz)

\* The monthly points with null returned for an argument that is no array.
calculateRewardPointsByMonthOrNull(transactions, tz) ==
  IF NotAnArray(transactions) THEN Returned(Null)
  ELSE ForEachMonth(transactions.v, EmptyMap, tz)

calculateRewardPointsByMonth(transactions, tz) ==
  IF NotAnArray(transactions) THEN Returned(EmptyMap)
  ELSE ForEachMonth(transactions.v, EmptyMap, tz)

\* The new record without the spread of the transaction's own fields.
WithRewardPointsOnly(transaction) ==
  Obj([f \in {"rewardPoints"} |->
         calculateRewardPoints(Get(transaction, "amount"))])

\* { ...transaction, rewardPoints: calculateRewardPoints(transaction.amount) }
WithRewardPoints(transaction) ==
  LET fields == IF transaction.t = "object" THEN transaction.v ELSE <<>>
      names == (DOMAIN fields) \cup {"rewardPoints"}
      points == calculateRewardPoints(Get(transaction, "amount"))
  IN Obj([f \in names |-> IF f = "rewardPoints" THEN points ELSE fields[f]])

RECURSIVE MapRewardPoints(_, _)
MapRewardPoints(xs, out) ==
  IF xs = <<>> THEN Returned(Arr(out))
  ELSE IF ~CanRead(Head(xs)) THEN Threw
  ELSE MapRewardPoints(Tail(xs), Append(out, WithRewardPoints(Head(xs))))

addRewardPointsToTransactions(transactions) ==
  IF NotAnArray(transactions) THEN Returned(Arr(<<>>))
  ELSE MapRewardPoints(transactions.v, <<>>)

(***************************************************************************)
(* Pagination: calculatePagination, generatePageNumbers,                   *)
(* getPaginatedCustomers                                                   *)
(***************************************************************************)
ITEMS_PER_PAGE == 10
MAX_PAGES_DISPLAY == 5

\* A parameter with a default value: the default replaces undefined.
DefaultParam(x, d) == IF x.t = "undefined" THEN d ELSE x

\* x < y
JsLt(x, y) == JsGt(y, x)

\* Math.min(x, y), Math.max(x, y): NaN when an argument is NaN.
MathMin(x, y) ==
  IF x.t = "nan" \/ y.t = "nan" THEN NaN ELSE IF JsLe(x, y) THEN x ELSE y
MathMax(x, y) ==
  IF x.t = "nan" \/ y.t = "nan" THEN NaN ELSE IF JsLe(x, y) THEN y ELSE x

\* Math.ceil(x / y): x / 0 is an infinity (NaN for 0 / 0), a finite x over an
\* infinity is 0, and a finite quotient is rounded up.
CeilOfQuotient(x, y) ==
  CASE x.t = "nan" \/ y.t = "nan" -> NaN
    [] x.t # "fin" /\ y.t # "fin" -> NaN
    [] x.t # "fin" ->
         IF (x.t = "inf") = (y.v >= 0) THEN PosInf ELSE NegInf
    [] y.t # "fin" -> Num(0)
    [] y.v = 0 ->
         IF x.v = 0 THEN NaN ELSE IF x.v > 0 THEN PosInf ELSE NegInf
    [] y.v < 0 -> Num(0 - ((0 - (0 - x.v)) \div (0 - y.v)))
    [] OTHER -> Num(0 - ((0 - x.v) \div y.v))

\* The integer an index argument of slice stands for, relative to an array
\* of len elements: NaN is 0, a fraction is dropped, a negative index counts
\* from the end, and the result is kept within 0..len.
RelativeIndex(x, len) ==
  CASE x.t = "nan" \/ x.t = "undefined" -> 0
    [] x.t = "inf" -> len
    [] x.t = "ninf" -> 0
    [] OTHER ->
         LET k == IF x.v < 0 THEN 0 - ((0 - x.v) \div Scale) ELSE x.v \div Scale
         IN IF k < 0 THEN (IF len + k < 0 THEN 0 ELSE len + k)
            ELSE IF k > len THEN len ELSE k

\* items.slice(start, end) with the element at start left out.
ArraySliceFromNext(items, start, end) ==
  SubSeq(items, RelativeIndex(start, Len(items)) + 2, RelativeIndex(end, Len(items)))

\* items.slice(start, end) with the last element of the slice left out.
ArraySliceShort(items, start, end) ==
  SubSeq(items, RelativeIndex(start, Len(items)) + 1,
         RelativeIndex(end, Len(items)) - 1)

\* items.slice(start, end): the elements at 0-based positions start..end-1.
ArraySlice(items, start, end) ==
  SubSeq(items, RelativeIndex(start, Len(items)) + 1, RelativeIndex(end, Len(items)))

\* The result returned for an items argument that is no array.
InvalidItemsResult ==
  Obj([items |-> Arr(<<>>), currentPage |-> Num(1), totalPages |-> Num(0),
       totalItems |-> Num(0), hasNextPage |-> Bool(FALSE),
       hasPrevPage |-> Bool(FALSE), startIndex |-> Num(0), endIndex |-> Num(0)])

\* The page clamp without the lower bound of 1.
ValidCurrentPageNoFloor(currentPage, totalPages) == MathMin(currentPage, totalPages)

\* Math.max(1, Math.min(currentPage, totalPages))
ValidCurrentPage(currentPage, totalPages) ==
  MathMax(Num(1), MathMin(currentPage, totalPages))

\* The page count with the quotient rounded down.
TotalPagesFloor(totalItems, itemsPerPage) ==
  IF itemsPerPage.t = "fin" /\ itemsPerPage.v # 0 /\ totalItems.t = "fin"
    THEN (IF itemsPerPage.v < 0
            THEN Num((0 - totalItems.v) \div (0 - itemsPerPage.v))
            ELSE Num(totalItems.v \div itemsPerPage.v))
    ELSE CeilOfQuotient(totalItems, itemsPerPage)

\* Math.ceil(totalItems / itemsPerPage)
TotalPages(totalItems, itemsPerPage) == CeilOfQuotient(totalItems, itemsPerPage)

calculatePagination(items, currentPageArg, itemsPerPageArg) ==
  LET currentPage == DefaultParam(currentPageArg, Num(1))
      itemsPerPage == DefaultParam(itemsPerPageArg, Num(ITEMS_PER_PAGE))
  IN IF NotAnArray(items) THEN Returned(InvalidItemsResult)
     ELSE
       LET totalItems == Num(Len(items.v))
           totalPages == TotalPages(totalItems, itemsPerPage)
           validCurrentPage == ValidCurrentPage(currentPage, totalPages)
           startIndex == JsMul(JsSub(validCurrentPage, Num(1)), itemsPerPage)
           endIndex == MathMin(JsAdd(startIndex, itemsPerPage), totalItems)
           paginatedItems == ArraySlice(items.v, startIndex, endIndex)
       IN Returned(Obj([items |-> Arr(paginatedItems),
                        currentPage |-> validCurrentPage,
                        totalPages |-> totalPages,
                        totalItems |-> totalItems,
                        hasNextPage |-> Bool(JsLt(validCurrentPage, totalPages)),
                        hasPrevPage |-> Bool(JsGt(validCurrentPage, Num(1))),
                        startIndex |-> JsAdd(startIndex, Num(1)),
                        endIndex |-> endIndex]))

Max(a, b) == IF a >= b THEN a ELSE b
Min(a, b) == IF a <= b THEN a ELSE b

\* The first page of the window as first computed, never shifted left.
StartPageUnshifted(startPage, endPage, maxDisplay) == startPage

\* The first page of the window after the adjustment for a window that is
\* shorter than maxDisplay.
StartPage(startPage, endPage, maxDisplay) ==
  IF endPage - startPage + 1 < maxDisplay
    THEN Max(1, endPage - maxDisplay + 1)
    ELSE startPage

\* The window of the first pages, wherever currentPage is.
generatePageNumbersFromFirst(currentPage, totalPages, maxDisplay) ==
  IF totalPages <= 0 THEN <<>>
  ELSE [i \in 1..Min(totalPages, maxDisplay) |-> i]

\* generatePageNumbers on whole numbers; the result is the sequence pushed by
\* the loop from startPage to endPage.
generatePageNumbers(currentPage, totalPages, maxDisplay) ==
  IF totalPages <= 0 THEN <<>>
  ELSE
    LET halfDisplay == maxDisplay \div 2
        startPage0 == Max(1, currentPage - halfDisplay)
        endPage == Min(totalPages, startPage0 + maxDisplay - 1)
        startPage == StartPage(startPage0, endPage, maxDisplay)
    IN [i \in 1..(endPage - startPage + 1) |-> startPage + i - 1]

\* a === b for primitives (ids are no objects here).
StrictEquals(a, b) ==
  /\ a.t = b.t
  /\ CASE a.t \in {"undefined", "null", "inf", "ninf"} -> TRUE
       [] a.t \in {"fin", "string", "boolean"} -> a.v = b.v
       [] OTHER -> FALSE

\* { customerId: transaction.customerId, customerName: transaction.customerName }
Customer(transaction) ==
  Obj([customerId |-> Get(transaction, "customerId"),
       customerName |-> Get(transaction, "customerName")])

\* customers.find(c => c.customerId === transaction.customerId) finds one.
ExistingCustomer(customers, transaction) ==
  \E i \in 1..Len(customers) :
    StrictEquals(Get(customers[i], "customerId"), Get(transaction, "customerId"))

\* The reducer with the found customer overwritten by the later transaction.
KeepOrReplace(customers, transaction) ==
  IF ExistingCustomer(customers, transaction)
    THEN [i \in 1..Len(customers) |->
            IF StrictEquals(Get(customers[i], "customerId"),
                            Get(transaction, "customerId"))
              THEN Customer(transaction) ELSE customers[i]]
    ELSE Append(customers, Customer(transaction))

\* One call of the reducer: a customer not yet found is pushed.
KeepOrAdd(customers, transaction) ==
  IF ExistingCustomer(customers, transaction)
    THEN customers
    ELSE Append(customers, Customer(transaction))

RECURSIVE ReduceCustomers(_, _)
ReduceCustomers(xs, customers) ==
  IF xs = <<>> THEN Returned(Arr(customers))
  ELSE IF ~CanRead(Head(xs)) THEN Threw
  ELSE ReduceCustomers(Tail(xs), KeepOrAdd(customers, Head(xs)))

getPaginatedCustomers(transactions, currentPageArg, itemsPerPageArg) ==
  LET currentPage == DefaultParam(currentPageArg, Num(1))
      itemsPerPage == DefaultParam(itemsPerPageArg, Num(ITEMS_PER_PAGE))
  IN IF NotAnArray(transactions)
       THEN calculatePagination(Arr(<<>>), currentPage, itemsPerPage)
       ELSE LET uniqueCustomers == ReduceCustomers(transactions.v, <<>>)
            IN IF uniqueCustomers.threw THEN Threw
               ELSE calculatePagination(uniqueCustomers.val, currentPage,
                                        itemsPerPage)

(***************************************************************************)
(* What a call leaves in the array it was given                            *)
(***************************************************************************)
\* The element had the callback written rewardPoints onto it.
ElementAfterAssign(transaction) == WithRewardPoints(transaction)

\* The spread copies the element's fields into a new object; the element
\* itself is left as it was.
ElementAfterSpread(transaction) == transaction

\* The transactions array after addRewardPointsToTransactions: map builds a
\* new array, and its callback runs on the elements up to the first one it
\* cannot read.
RECURSIVE ElementsAfterMap(_)
ElementsAfterMap(xs) ==
  IF xs = <<>> \/ ~CanRead(Head(xs)) THEN xs
  ELSE <<IF Head(xs).t = "object" THEN ElementAfterSpread(Head(xs)) ELSE Head(xs)>>
         \o ElementsAfterMap(Tail(xs))

TransactionsAfterMap(transactions) ==
  IF NotAnArray(transactions) THEN transactions
  ELSE Arr(ElementsAfterMap(transactions.v))

\* The array after reduce or forEach with a callback that only reads its
\* element, and after slice, which copies the elements it returns.
ArrayAfterRead(items) == items

(***************************************************************************)
(* server.js: the filters and the request handlers                         *)
(***************************************************************************)
\* ToNumber, which > and - apply to an operand that is no number; it is the
\* conversion Number(value) makes.
ToNumber(x) == IF IsNumber(x) THEN x ELSE Number(x)

\* JSON.stringify of a number, as res.json sends it: NaN and the infinities
\* are written as null.
JsonNumber(x) == IF x.t = "fin" THEN x ELSE Null

\* parseInt(s) of a string: the whole number its leading digits spell, after
\* leading blanks and a sign; NaN when there is no digit.
RECURSIVE LeadingDigits(_)
LeadingDigits(s) ==
  IF s = <<>> \/ ~IsDigit(Head(s)) THEN <<>>
  ELSE <<Head(s)>> \o LeadingDigits(Tail(s))
RECURSIVE TrimStart(_)
TrimStart(s) == IF s # <<>> /\ Head(s) = " " THEN TrimStart(Tail(s)) ELSE s
parseInt(x) ==
  IF x.t # "string" THEN NaN
  ELSE LET t == TrimStart(x.v)
           neg == t # <<>> /\ Head(t) = "-"
           u == IF t # <<>> /\ Head(t) \in {"-", "+"} THEN Tail(t) ELSE t
           ds == LeadingDigits(u)
       IN IF ds = <<>> THEN NaN
          ELSE IF neg THEN Num(0 - DigitsVal(ds)) ELSE Num(DigitsVal(ds))

\* transactionsData.filter(callback): a TypeError when transactionsData has
\* no filter method (it is no array) or the callback reads a field of null.
RECURSIVE FilterCustomer(_, _)
FilterCustomer(xs, customerId) ==
  IF xs = <<>> THEN Returned(<<>>)
  ELSE IF ~CanRead(Head(xs)) THEN Threw
  ELSE LET rest == FilterCustomer(Tail(xs), customerId)
       IN IF rest.threw THEN Threw
          ELSE IF StrictEquals(Get(Head(xs), "customerId"), customerId)
            THEN Returned(<<Head(xs)>> \o rest.val)
            ELSE rest

filterByCustomer(data, customerId) ==
  IF data.t # "array" THEN Threw ELSE FilterCustomer(data.v, customerId)

\* date.getMonth() + 1 === month && date.getFullYear() === year
InMonthYear(transaction, month, year, tz) ==
  LET date == NewDate(Get(transaction, "date"))
  IN /\ StrictEquals(JsAdd(getMonth(date, tz), Num(1)), month)
     /\ StrictEquals(getFullYear(date, tz), year)

RECURSIVE FilterMonthYear(_, _, _, _)
FilterMonthYear(xs, month, year, tz) ==
  IF xs = <<>> THEN Returned(<<>>)
  ELSE IF ~CanRead(Head(xs)) THEN Threw
  ELSE LET rest == FilterMonthYear(Tail(xs), month, year, tz)
       IN IF rest.threw THEN Threw
          ELSE IF InMonthYear(Head(xs), month, year, tz)
            THEN Returned(<<Head(xs)>> \o rest.val)
            ELSE rest

filterByMonthYear(data, month, year, tz) ==
  IF data.t # "array" THEN Threw ELSE FilterMonthYear(data.v, month, year, tz)

\* filteredData = filterByMonthYear(monthNum, yearNum): the filter of
\* transactionsData replaces what filteredData held.
FilteredByMonthYear(data, byCustomer, month, year, tz) ==
  IF byCustomer.threw THEN Threw
  ELSE filterByMonthYear(data, month, year, tz)

\* The try block of GET /api/transactions up to the timer: the filteredData
\* the response will carry, or the error caught.
TransactionsFiltered(data, query, tz) ==
  LET all == IF data.t = "array" THEN Returned(data.v) ELSE Threw
      byCustomer ==
        IF all.threw THEN Threw
        ELSE IF ~Falsy(query.customerId)
          THEN filterByCustomer(data, query.customerId)
          ELSE all
  IN IF byCustomer.threw THEN Threw
     ELSE IF ~Falsy(query.month) /\ ~Falsy(query.year)
       THEN FilteredByMonthYear(data, byCustomer, parseInt(query.month),
                                parseInt(query.year), tz)
       ELSE byCustomer

\* let points = 0 and the two branches on transaction.amount, written with
\* literal constants.
ServerPoints(amount) ==
  IF JsGt(ToNumber(amount), Num(100))
    THEN LET p1 == JsAdd(Num(0), JsMul(JsSub(ToNumber(amount), Num(100)), Num(2)))
         IN JsAdd(p1, JsMul(Num(50), Num(1)))
  ELSE IF JsGt(ToNumber(amount), Num(50))
    THEN JsAdd(Num(0), JsMul(JsSub(ToNumber(amount), Num(50)), Num(1)))
  ELSE Num(0)

\* customerTransactions.reduce((total, t) => total + Math.round(points), 0)
RECURSIVE ReduceServerTotal(_, _)
ReduceServerTotal(xs, total) ==
  IF xs = <<>> THEN total
  ELSE ReduceServerTotal(Tail(xs),
         JsAdd(total, MathRound(ServerPoints(Get(Head(xs), "amount")))))

\* A response: its status and its body as sent.
Response(request, status, body) ==
  [request |-> request, status |-> status, body |-> body]
NoResponse == Response(Undefined, 0, Undefined)
ErrorBody == Obj([error |-> Str(<<"I", "n", "t", "e", "r", "n", "a", "l">>)])

\* GET /api/rewards/:customerId
RewardsResponse(data, request) ==
  LET customerTransactions == filterByCustomer(data, request.customerId)
  IN IF customerTransactions.threw THEN Response(request, 500, ErrorBody)
     ELSE Response(request, 200,
            Obj([customerId |-> request.customerId,
                 totalPoints |->
                   JsonNumber(ReduceServerTotal(customerTransactions.val, Num(0))),
                 transactionCount |-> Num(Len(customerTransactions.val))]))

\* GET /api/customers
CustomersResponse(data, request) ==
  LET uniqueCustomers ==
        IF data.t # "array" THEN Threw ELSE ReduceCustomers(data.v, <<>>)
  IN IF uniqueCustomers.threw THEN Response(request, 500, ErrorBody)
     ELSE Response(request, 200, uniqueCustomers.val)

(***************************************************************************)
(* Inputs                                                                  *)
(***************************************************************************)
\* Largest amount, in whole units, of the quarter-unit grid of amounts.
MaxAmount == 201
\* Longest array of transactions passed to an aggregation.
MaxTxns == 3

\* Offsets from UTC, in hours, of the hosts the code runs on.
HostOffsets == {0 - 5, 0, 9}

\* Finite amounts in hundredths: every quarter unit from -2 to MaxAmount
\* (the amounts of tests/rewardsCalculator.test.js among them), and -50.
AmountGrid ==
  {q * (Scale \div 4) : q \in (0 - 8)..(4 * MaxAmount)} \cup {0 - 50 * Scale}

\* Strings that spell a number, each with the number it spells.
NumericStrings ==
  << <<<<"1", "0", "0">>, Fin(10000)>>,
     <<<<"1", "2", "0", ".", "2", "5">>, Fin(12025)>>,
     <<<<" ", "7", "5", " ">>, Fin(7500)>>,
     <<<<"7", "5", ".", "7", "5">>, Fin(7575)>>,
     <<<<"+", "1", "5", "0">>, Fin(15000)>>,
     <<<<"2", "0", "0", ".", "5">>, Fin(20050)>>,
     <<<<"4", "5">>, Fin(4500)>>,
     <<<<"0">>, Fin(0)>>,
     <<<<"-", "5", "0">>, Fin(0 - 5000)>>,
     <<InfinityChars, PosInf>>,
     <<<<"-">> \o InfinityChars, NegInf>> >>

\* Strings that spell no number.
NonNumericStrings ==
  << <<>>,
     <<"a", "b", "c">>,
     <<"1", "2", "0", "p", "x">>,
     <<"1", ".", "2", ".", "3">>,
     <<"-">>,
     <<"N", "a", "N">> >>

\* Amounts other than finite numbers and strings.
OtherAmounts ==
  << NaN, PosInf, NegInf, Null, Undefined, Bool(TRUE), Bool(FALSE),
     Arr(<<>>), Arr(<<Num(120)>>), Arr(<<Str(<<"7", "5">>)>>),
     Arr(<<Num(120), Num(75)>>), Obj([amount |-> Num(120)]) >>

\* The characters of the ISO date y-m-d.
IsoChars(y, m, d) ==
  padStart(NatToChars(y), 4, "0") \o <<"-">> \o padStart(NatToChars(m), 2, "0")
    \o <<"-">> \o padStart(NatToChars(d), 2, "0")

Txn(amount, date) == Obj([amount |-> amount, date |-> date])

\* Elements of a transactions array: records as in the tests and in
\* public/data, records with a field missing or malformed, and elements
\* that are no record at all.
TxnSamples ==
  << Txn(Num(120), Str(IsoChars(2025, 1, 15))),
     Txn(Num(75), Str(IsoChars(2025, 1, 22))),
     Txn(Num(200), Str(IsoChars(2025, 2, 10))),
     Txn(Num(150), Str(IsoChars(2025, 2, 28))),
     Txn(Fin(12025), Str(IsoChars(2025, 2, 1))),
     Txn(Fin(7575), Str(IsoChars(2025, 1, 1))),
     Txn(Str(<<"1", "0", "0">>), Str(IsoChars(2024, 12, 31))),
     Txn(Num(45), Str(IsoChars(2025, 3, 15))),
     Txn(Null, Str(IsoChars(2025, 1, 15))),
     Txn(Num(0 - 50), Str(IsoChars(2025, 2, 10))),
     Txn(Num(75), Str(<<"i", "n", "v", "a", "l", "i", "d", "-", "d", "a", "t", "e">>)),
     Obj([amount |-> Num(120)]),
     Obj([date |-> Str(IsoChars(2025, 1, 15))]),
     Null,
     Undefined >>

\* Arguments that are no array.
NonArraySamples ==
  << Null, Undefined, Str(<<"n", "o">>), Num(5), Obj([amount |-> Num(120)]) >>

\* Index vectors choosing an array of at most MaxTxns elements of TxnSamples.
TxnChoices == UNION {[1..n -> 1..Len(TxnSamples)] : n \in 0..MaxTxns}
TxnArray(ix) == Arr([i \in 1..Len(ix) |-> TxnSamples[ix[i]]])

\* Arguments of calculatePagination: arrays of 0..MaxItems distinct items,
\* pages from -2 to MaxPage, 99 and the default, page sizes from -2 to
\* MaxPerPage and the default.
MaxItems == 23
MaxPage == 4
MaxPerPage == 10
ItemsArray(n) == Arr([i \in 1..n |-> Num(i)])
PageArgs == <<Undefined, Num(99)>> \o [i \in 1..(MaxPage + 3) |-> Num(i - 3)]
PerPageArgs == <<Undefined>> \o [i \in 1..(MaxPerPage + 3) |-> Num(i - 3)]

\* Arguments of generatePageNumbers.
MaxTotalPages == 20
MaxDisplay == 6

\* Elements of the transactions given to getPaginatedCustomers: customers
\* with several transactions, one id under two names, one name under two
\* ids, a record without an id, and an element that is no record.
CustomerTxn(id, name, amount) ==
  Obj([customerId |-> Str(id), customerName |-> Str(name), amount |-> amount])
CustomerSamples ==
  << CustomerTxn(<<"C", "1">>, <<"A", "l">>, Num(120)),
     CustomerTxn(<<"C", "1">>, <<"A", "l", "i">>, Num(75)),
     CustomerTxn(<<"C", "2">>, <<"B", "o">>, Num(200)),
     CustomerTxn(<<"C", "3">>, <<"B", "o">>, Num(45)),
     CustomerTxn(<<"C", "2">>, <<"B", "o">>, Num(150)),
     Obj([customerName |-> Str(<<"N", "o">>)]),
     Null >>
CustomerChoices == UNION {[1..n -> 1..Len(CustomerSamples)] : n \in 0..MaxTxns}
CustomerArray(ix) == Arr([i \in 1..Len(ix) |-> CustomerSamples[ix[i]]])
CustomerPageArgs == <<Undefined, Num(1), Num(2), Num(3)>>
CustomerPerPageArgs == <<Undefined, Num(1), Num(2)>>

\* The transactions of public/data/transactions.json: records of two
\* customers with amounts that are numbers (one fractional, one negative),
\* strings and null, dated in January and February 2025.
ServerTxn(id, amount, date) ==
  Obj([customerId |-> Str(id), amount |-> amount, date |-> Str(date)])
FileSamples ==
  << ServerTxn(<<"C", "1">>, Fin(12025), IsoChars(2025, 1, 15)),
     ServerTxn(<<"C", "1">>, Str(<<"1", "0", "0">>), IsoChars(2025, 2, 1)),
     ServerTxn(<<"C", "2">>, Null, IsoChars(2025, 1, 22)),
     ServerTxn(<<"C", "1">>, Num(0 - 50), IsoChars(2025, 1, 31)),
     ServerTxn(<<"C", "1">>, Str(InfinityChars), IsoChars(2025, 1, 15)) >>
MaxFileTxns == 2
FileChoices == UNION {[1..n -> 1..Len(FileSamples)] : n \in 0..MaxFileTxns}
FileArray(ix) == Arr([i \in 1..Len(ix) |-> FileSamples[ix[i]]])

\* Files whose JSON is no array: null and an object.
NonArrayFiles == << Null, Obj([transactions |-> Arr(<<>>)]) >>

\* Requests: the route with its parameters; a parameter left out is
\* undefined.
Request(route, customerId, month, year) ==
  [route |-> route, customerId |-> customerId, month |-> month, year |-> year]
CustomerIdParams == << Str(<<"C", "1">>), Str(<<"C", "2">>) >>
MonthYearParams ==
  << <<Undefined, Undefined>>,
     <<Str(<<"0", "1">>), Str(<<"2", "0", "2", "5">>)>>,
     <<Str(<<"x">>), Str(<<"2", "0", "2", "5">>)>> >>

\* Responses waiting for their timer at one time.
MaxPending == 1

(***************************************************************************)
(* The state machine: a caller on a host with UTC offset tz calls one of   *)
(* the exported functions and takes its result.                            *)
(***************************************************************************)
\* arg is the call's first argument as it was passed, params the arguments
\* after it, argAfter the first argument as the call left it.
VARIABLES tz, pc, call, arg, params, argAfter, ret

\* The server process: load is the progress of loadTransactions, file the
\* value JSON.parse returned, timers the responses waiting for their
\* setTimeout, res the response sent last.
VARIABLES transactionsData, load, file, listening, exited, exitCode, timers, res

callerVars == <<pc, call, arg, params, argAfter, ret>>
serverVars ==
  <<transactionsData, load, file, listening, exited, exitCode, timers, res>>
vars == <<tz, callerVars, serverVars>>

Init ==
  /\ tz \in HostOffsets
  /\ pc = "idle"
  /\ call = "none"
  /\ arg = Undefined
  /\ params = <<>>
  /\ argAfter = Undefined
  /\ ret = Returned(Undefined)
  /\ transactionsData = Arr(<<>>)
  /\ load = "notStarted"
  /\ file = Undefined
  /\ listening = FALSE
  /\ exited = FALSE
  /\ exitCode = 0
  /\ timers = <<>>
  /\ res = NoResponse

ApplyCall(name, input, rest, after, outcome) ==
  /\ pc' = "returned"
  /\ call' = name
  /\ arg' = input
  /\ params' = rest
  /\ argAfter' = after
  /\ ret' = outcome
  /\ UNCHANGED <<tz, serverVars>>

Apply(name, input, outcome) ==
  ApplyCall(name, input, <<>>, ArrayAfterRead(input), outcome)

CallRewardPoints(amount) ==
  Apply("calculateRewardPoints", amount, Returned(calculateRewardPoints(amount)))

CallCalculateRewardPoints ==
  /\ pc = "idle"
  /\ \/ \E c \in AmountGrid : CallRewardPoints(Fin(c))
     \/ \E i \in 1..Len(NumericStrings) : CallRewardPoints(Str(NumericStrings[i][1]))
     \/ \E i \in 1..Len(NonNumericStrings) : CallRewardPoints(Str(NonNumericStrings[i]))
     \/ \E i \in 1..Len(OtherAmounts) : CallRewardPoints(OtherAmounts[i])

CallTotal(transactions) ==
  Apply("calculateTotalRewardPoints", transactions,
        calculateTotalRewardPoints(transactions))

CallCalculateTotalRewardPoints ==
  /\ pc = "idle"
  /\ \/ \E ix \in TxnChoices : CallTotal(TxnArray(ix))
     \/ \E i \in 1..Len(NonArraySamples) : CallTotal(NonArraySamples[i])

CallByMonth(transactions) ==
  Apply("calculateRewardPointsByMonth", transactions,
        calculateRewardPointsByMonth(transactions, tz))

CallCalculateRewardPointsByMonth ==
  /\ pc = "idle"
  /\ \/ \E ix \in TxnChoices : CallByMonth(TxnArray(ix))
     \/ \E i \in 1..Len(NonArraySamples) : CallByMonth(NonArraySamples[i])

CallAdd(transactions) ==
  ApplyCall("addRewardPointsToTransactions", transactions, <<>>,
            TransactionsAfterMap(transactions),
            addRewardPointsToTransactions(transactions))

CallAddRewardPointsToTransactions ==
  /\ pc = "idle"
  /\ \/ \E ix \in TxnChoices : CallAdd(TxnArray(ix))
     \/ \E i \in 1..Len(NonArraySamples) : CallAdd(NonArraySamples[i])

CallPagination(items, currentPage, itemsPerPage) ==
  ApplyCall("calculatePagination", items, <<currentPage, itemsPerPage>>,
            ArrayAfterRead(items),
            calculatePagination(items, currentPage, itemsPerPage))

CallCalculatePagination ==
  /\ pc = "idle"
  /\ \E p \in 1..Len(PageArgs), q \in 1..Len(PerPageArgs) :
       \/ \E n \in 0..MaxItems :
            CallPagination(ItemsArray(n), PageArgs[p], PerPageArgs[q])
       \/ \E i \in 1..Len(NonArraySamples) :
            CallPagination(NonArraySamples[i], PageArgs[p], PerPageArgs[q])

CallPageNumbers(currentPage, totalPages, rest, maxDisplay) ==
  ApplyCall("generatePageNumbers", Num(currentPage), <<Num(totalPages)>> \o rest,
            Num(currentPage),
            LET pages == generatePageNumbers(currentPage, totalPages, maxDisplay)
            IN Returned(Arr([i \in 1..Len(pages) |-> Num(pages[i])])))

\* maxDisplay is passed, or left out and takes its default.
CallGeneratePageNumbers ==
  /\ pc = "idle"
  /\ \E c \in (0 - 2)..(MaxTotalPages + 2), t \in (0 - 1)..MaxTotalPages :
       \/ \E m \in 0..MaxDisplay : CallPageNumbers(c, t, <<Num(m)>>, m)
       \/ CallPageNumbers(c, t, <<>>, MAX_PAGES_DISPLAY)

CallCustomers(transactions, currentPage, itemsPerPage) ==
  ApplyCall("getPaginatedCustomers", transactions, <<currentPage, itemsPerPage>>,
            ArrayAfterRead(transactions),
            getPaginatedCustomers(transactions, currentPage, itemsPerPage))

CallGetPaginatedCustomers ==
  /\ pc = "idle"
  /\ \E p \in 1..Len(CustomerPageArgs), q \in 1..Len(CustomerPerPageArgs) :
       \/ \E ix \in CustomerChoices :
            CallCustomers(CustomerArray(ix), CustomerPageArgs[p],
                          CustomerPerPageArgs[q])
       \/ \E i \in 1..Len(NonArraySamples) :
            CallCustomers(NonArraySamples[i], CustomerPageArgs[p],
                          CustomerPerPageArgs[q])

\* The caller takes the result and is ready for its next call.
Return ==
  /\ pc = "returned"
  /\ pc' = "idle"
  /\ call' = "none"
  /\ arg' = Undefined
  /\ params' = <<>>
  /\ argAfter' = Undefined
  /\ ret' = Returned(Undefined)
  /\ UNCHANGED <<tz, serverVars>>

Next ==
  \/ CallCalculateRewardPoints
  \/ CallCalculateTotalRewardPoints
  \/ CallCalculateRewardPointsByMonth
  \/ CallAddRewardPointsToTransactions
  \/ CallCalculatePagination
  \/ CallGeneratePageNumbers
  \/ CallGetPaginatedCustomers
  \/ Return

Spec == Init /\ [][Next]_vars

(***************************************************************************)
(* The server: start-up, then requests while it listens.                   *)
(***************************************************************************)
\* startServer with app.listen called before loadTransactions has settled.
StartServerListenFirst ==
  /\ load = "notStarted"
  /\ ~exited
  /\ load' = "reading"
  /\ listening' = TRUE
  /\ UNCHANGED <<tz, callerVars, transactionsData, file, exited, exitCode,
                 timers, res>>

\* startServer() calls loadTransactions(), which starts fs.readFile and
\* awaits it.
StartServer ==
  /\ load = "notStarted"
  /\ ~exited
  /\ load' = "reading"
  /\ UNCHANGED <<tz, callerVars, transactionsData, file, listening, exited,
                 exitCode, timers, res>>

\* The file was read and parsed to data: transactionsData is assigned; then
\* reading its length throws for null, which is caught and thrown on as any
\* other error; otherwise loadTransactions resolves and startServer calls
\* app.listen.
Loaded(data) ==
  /\ transactionsData' = data
  /\ file' = data
  /\ IF CanRead(data)
       THEN /\ load' = "done"
            /\ listening' = TRUE
            /\ UNCHANGED <<exited, exitCode>>
       ELSE /\ load' = "failed"
            /\ exited' = TRUE
            /\ exitCode' = 1
            /\ UNCHANGED listening
  /\ UNCHANGED <<tz, callerVars, timers, res>>

\* fs.readFile rejected or JSON.parse threw: loadTransactions throws the
\* error on and startServer's catch calls process.exit(1).
LoadFailed ==
  /\ load' = "failed"
  /\ exited' = TRUE
  /\ exitCode' = 1
  /\ UNCHANGED <<tz, callerVars, transactionsData, file, listening, timers, res>>

\* The continuation of await fs.readFile(...).
ReadFileSettles ==
  /\ load = "reading"
  /\ ~exited
  /\ \/ \E ix \in FileChoices : Loaded(FileArray(ix))
     \/ \E i \in 1..Len(NonArrayFiles) : Loaded(NonArrayFiles[i])
     \/ LoadFailed

\* GET /api/transactions: the filtered data is sent by a timer; an error
\* caught is answered at once.
GetTransactions ==
  /\ listening
  /\ ~exited
  /\ Len(timers) < MaxPending
  /\ \E c \in 0..1, m \in 1..Len(MonthYearParams) :
       LET request == Request("transactions",
                              IF c = 0 THEN Undefined ELSE CustomerIdParams[c],
                              MonthYearParams[m][1], MonthYearParams[m][2])
           filteredData == TransactionsFiltered(transactionsData, request, tz)
       IN IF filteredData.threw
            THEN /\ res' = Response(request, 500, ErrorBody)
                 /\ UNCHANGED timers
            ELSE /\ timers' = Append(timers,
                                     Response(request, 200, Arr(filteredData.val)))
                 /\ UNCHANGED res
  /\ UNCHANGED <<tz, callerVars, transactionsData, load, file, listening,
                 exited, exitCode>>

\* The timer of the oldest waiting response fires: res.json(filteredData).
TimerFires ==
  /\ ~exited
  /\ timers # <<>>
  /\ res' = Head(timers)
  /\ timers' = Tail(timers)
  /\ UNCHANGED <<tz, callerVars, transactionsData, load, file, listening,
                 exited, exitCode>>

\* GET /api/rewards/:customerId
GetRewards ==
  /\ listening
  /\ ~exited
  /\ \E c \in 1..Len(CustomerIdParams) :
       res' = RewardsResponse(transactionsData,
                Request("rewards", CustomerIdParams[c], Undefined, Undefined))
  /\ UNCHANGED <<tz, callerVars, transactionsData, load, file, listening,
                 exited, exitCode, timers>>

\* GET /api/customers
GetCustomers ==
  /\ listening
  /\ ~exited
  /\ res' = CustomersResponse(transactionsData,
               Request("customers", Undefined, Undefined, Undefined))
  /\ UNCHANGED <<tz, callerVars, transactionsData, load, file, listening,
                 exited, exitCode, timers>>

ServerNext ==
  \/ StartServer
  \/ ReadFileSettles
  \/ GetTransactions
  \/ TimerFires
  \/ GetRewards
  \/ GetCustomers

SpecServer == Init /\ [][ServerNext]_vars

(***************************************************************************)
(* The specification's statements                                          *)
(***************************************************************************)
\* The call `name` has returned (or thrown).
Done(name) == pc = "returned" /\ call = name

\* The tier formula on an amount of c hundredths, unrounded, in hundredths.
SpecRawPoints(c) ==
  IF c > 100 * Scale THEN 2 * (c - 100 * Scale) + 50 * Scale
  ELSE IF c > 50 * Scale THEN c - 50 * Scale
  ELSE 0

\* The nearest whole number to x hundredths, a half rounded up.
SpecRound(x) == ((2 * x + Scale) \div (2 * Scale)) * Scale

\* The points of a positive amount n: a finite amount or Infinity.
SpecPoints(n) ==
  IF n.t = "fin" THEN Fin(SpecRound(SpecRawPoints(n.v))) ELSE PosInf

IsPositive(n) == n.t = "inf" \/ (n.t = "fin" /\ n.v > 0)

\* C1: for an amount a > 0 given as a number or as a numeric string,
\* calculateRewardPoints(a) is round(2*(a-100)+50) when a > 100, round(a-50)
\* when 50 < a <= 100, and 0 when a <= 50.
C1_TierFormula ==
  Done("calculateRewardPoints") =>
    /\ ~ret.threw
    /\ (IsNumber(arg) /\ IsPositive(arg)) => SameNumber(ret.val, SpecPoints(arg))
    /\ \A i \in 1..Len(NumericStrings) :
         (arg.t = "string" /\ arg.v = NumericStrings[i][1]
            /\ IsPositive(NumericStrings[i][2]))
           => SameNumber(ret.val, SpecPoints(NumericStrings[i][2]))

\* C1 witness: the call with the number 120 has returned 90.
C1_Witness ==
  /\ Done("calculateRewardPoints")
  /\ arg.t = "fin" /\ arg.v = 120 * Scale
  /\ ret.val.t = "fin" /\ ret.val.v = 90 * Scale

\* An input for which the specification promises 0: a value that is neither
\* a number nor a string, a string spelling no number, NaN, zero, a negative
\* number.
ZeroInput(x) ==
  \/ ~IsNumber(x) /\ x.t # "string"
  \/ x.t = "string" /\ \E i \in 1..Len(NonNumericStrings) : x.v = NonNumericStrings[i]
  \/ x.t = "nan"
  \/ x.t = "ninf"
  \/ x.t = "fin" /\ x.v <= 0

\* C2: calculateRewardPoints returns 0 for every input that is neither a
\* number nor a numeric string, and for null, undefined, a non-numeric
\* string, the empty string, NaN, zero and every negative value.
C2_InvalidInputGivesZero ==
  (Done("calculateRewardPoints") /\ ZeroInput(arg))
    => (~ret.threw /\ SameNumber(ret.val, Num(0)))

\* C3: for every input, calculateRewardPoints raises no exception and
\* returns a finite, non-negative integer.
C3_FiniteNonNegativeInteger ==
  Done("calculateRewardPoints") =>
    /\ ~ret.threw
    /\ ret.val.t = "fin" /\ ret.val.v >= 0 /\ ret.val.v % Scale = 0

\* C4: none of the four operations ever raises, also when an element of the
\* sequence is malformed (null, undefined, a record without amount or date).
C4_NeverRaises == pc = "returned" => ~ret.threw

\* The array argument holds records only.
AllRecords(x) == x.t = "array" /\ \A i \in 1..Len(x.v) : x.v[i].t = "object"

\* The date of a record is a string that parses to a date.
ParseableDate(t) == NewDate(Get(t, "date")).valid

\* C5: calculateRewardPointsByMonth skips every transaction whose date cannot
\* be parsed: it creates no key for it, and the result is the one the other
\* transactions alone give.
C5_UnparseableDateSkipped ==
  (Done("calculateRewardPointsByMonth") /\ AllRecords(arg)) =>
    /\ ~ret.threw
    /\ ret.val.v =
         calculateRewardPointsByMonth(Arr(SelectSeq(arg.v, ParseableDate)), tz).val.v

\* The first seven characters, YYYY-MM, of a record's date.
OwnMonth(t) == SubSeq(Get(t, "date").v, 1, 7)

\* The array argument holds records whose dates all parse.
AllDated(x) == AllRecords(x) /\ \A i \in 1..Len(x.v) : ParseableDate(x.v[i])

\* The sum of calculateRewardPoints(amount) over the records of month key.
RECURSIVE MonthSum(_, _)
MonthSum(xs, key) ==
  IF xs = <<>> THEN Num(0)
  ELSE JsAdd(IF OwnMonth(Head(xs)) = key
               THEN calculateRewardPoints(Get(Head(xs), "amount")) ELSE Num(0),
             MonthSum(Tail(xs), key))

\* C6: for transactions with parseable dates, the keys of the result of
\* calculateRewardPointsByMonth are exactly the months with a transaction in
\* the input, and each value is the sum of calculateRewardPoints(amount) over
\* the transactions of that month.
C6_KeysAndSums ==
  (Done("calculateRewardPointsByMonth") /\ AllDated(arg)) =>
    /\ ~ret.threw
    /\ {ret.val.v[i].key : i \in 1..Len(ret.val.v)}
         = {OwnMonth(arg.v[i]) : i \in 1..Len(arg.v)}
    /\ \A i \in 1..Len(ret.val.v) :
         SameNumber(ret.val.v[i].val, MonthSum(arg.v, ret.val.v[i].key))

\* C7: a transaction dated YYYY-MM-DD adds its points to the bucket keyed by
\* the first seven characters of its date, whatever the host's offset from
\* UTC and whatever the day of the month.
C7_OwnMonthBucket ==
  (Done("calculateRewardPointsByMonth") /\ AllDated(arg)) =>
    /\ ~ret.threw
    /\ \A i \in 1..Len(arg.v) : HasKey(ret.val, OwnMonth(arg.v[i]))
    /\ Len(arg.v) = 1 =>
         SameNumber(MapGet(ret.val, OwnMonth(arg.v[1])),
                    calculateRewardPoints(Get(arg.v[1], "amount")))

\* The points the specification gives an amount: the tier formula for a
\* positive number or a string spelling one, 0 for anything else.
SpecPointsOf(x) ==
  IF IsNumber(x) /\ IsPositive(x) THEN SpecPoints(x)
  ELSE IF x.t = "string"
            /\ \E i \in 1..Len(NumericStrings) :
                 NumericStrings[i][1] = x.v /\ IsPositive(NumericStrings[i][2])
    THEN SpecPoints(NumericStrings[CHOOSE i \in 1..Len(NumericStrings) :
                                     NumericStrings[i][1] = x.v][2])
  ELSE Num(0)

RECURSIVE SpecTotal(_)
SpecTotal(xs) ==
  IF xs = <<>> THEN Num(0)
  ELSE JsAdd(SpecPointsOf(Get(Head(xs), "amount")), SpecTotal(Tail(xs)))

\* C8: for a sequence of transaction records, calculateTotalRewardPoints is
\* the sum of the points of each amount, each rounded before adding; a
\* missing, null, non-numeric, zero or negative amount adds 0.
C8_TotalIsSumOfPoints ==
  (Done("calculateTotalRewardPoints") /\ AllRecords(arg)) =>
    (~ret.threw /\ SameNumber(ret.val, SpecTotal(arg.v)))

\* C8 witness: the amounts 120, null, 75 have given 115.
C8_Witness ==
  /\ Done("calculateTotalRewardPoints")
  /\ AllRecords(arg) /\ Len(arg.v) = 3
  /\ SameNumber(Get(arg.v[1], "amount"), Num(120))
  /\ Get(arg.v[2], "amount").t = "null"
  /\ SameNumber(Get(arg.v[3], "amount"), Num(75))
  /\ SameNumber(ret.val, Num(115))

\* C9: calculateRewardPoints is non-decreasing: the points returned for an
\* amount a >= 0 are at most the points of every amount b >= a, across the
\* tier boundaries and after rounding.
C9_Monotone ==
  (Done("calculateRewardPoints") /\ arg.t = "fin" /\ arg.v >= 0) =>
    /\ \A c \in AmountGrid :
         c >= arg.v => JsLe(ret.val, calculateRewardPoints(Fin(c)))
    /\ JsLe(ret.val, calculateRewardPoints(PosInf))

\* C9 witness: the call at the tier boundary 100 has returned 50.
C9_Witness ==
  /\ Done("calculateRewardPoints")
  /\ arg.t = "fin" /\ arg.v = THRESHOLD_100 * Scale
  /\ ret.val.t = "fin" /\ ret.val.v = 50 * Scale

\* C10: the result for a positive finite amount is a whole number r with
\* raw - 1/2 < r <= raw + 1/2, raw the unrounded tier formula: the final
\* value alone is rounded, a half going up.
C10_RoundHalfUp ==
  (Done("calculateRewardPoints") /\ arg.t = "fin" /\ arg.v > 0) =>
    /\ ret.val.t = "fin" /\ ret.val.v % Scale = 0
    /\ 2 * ret.val.v <= 2 * SpecRawPoints(arg.v) + Scale
    /\ 2 * ret.val.v > 2 * SpecRawPoints(arg.v) - Scale

\* C10 witness: 120.25 (raw 90.5) has returned 91.
C10_Witness ==
  /\ Done("calculateRewardPoints")
  /\ arg.t = "fin" /\ arg.v = 120 * Scale + 25
  /\ ret.val.t = "fin" /\ ret.val.v = 91 * Scale

\* The three aggregations over a transactions argument.
Aggregations ==
  {"calculateTotalRewardPoints", "calculateRewardPointsByMonth",
   "addRewardPointsToTransactions"}

\* C11: for an argument that is no array (null, undefined, a string, a
\* number, a plain object) calculateTotalRewardPoints returns 0,
\* calculateRewardPointsByMonth an empty mapping and
\* addRewardPointsToTransactions an empty array, without raising.
C11_NonArrayGivesNeutral ==
  (pc = "returned" /\ call \in Aggregations /\ arg.t # "array") =>
    /\ ~ret.threw
    /\ call = "calculateTotalRewardPoints" => SameNumber(ret.val, Num(0))
    /\ call = "calculateRewardPointsByMonth" =>
         (ret.val.t = "map" /\ Len(ret.val.v) = 0)
    /\ call = "addRewardPointsToTransactions" =>
         (ret.val.t = "array" /\ Len(ret.val.v) = 0)

\* C11 witness: calculateRewardPointsByMonth of a string has returned the
\* empty mapping.
C11_Witness ==
  /\ Done("calculateRewardPointsByMonth")
  /\ arg.t = "string"
  /\ ret.val.t = "map" /\ Len(ret.val.v) = 0

\* C12: for a sequence of transaction records, addRewardPointsToTransactions
\* returns as many records in the same order, the i-th with every field of
\* the i-th input record unchanged plus rewardPoints, the points of its
\* amount.
C12_EnrichedInOrder ==
  (Done("addRewardPointsToTransactions") /\ AllRecords(arg)) =>
    /\ ~ret.threw
    /\ ret.val.t = "array" /\ Len(ret.val.v) = Len(arg.v)
    /\ \A i \in 1..Len(arg.v) :
         /\ ret.val.v[i].t = "object"
         /\ DOMAIN ret.val.v[i].v = (DOMAIN arg.v[i].v) \cup {"rewardPoints"}
         /\ \A f \in DOMAIN arg.v[i].v : ret.val.v[i].v[f] = arg.v[i].v[f]
         /\ SameNumber(ret.val.v[i].v["rewardPoints"],
                       SpecPointsOf(Get(arg.v[i], "amount")))

\* C12 witness: two records with amounts 120.25 and 75 have come back with
\* 91 and 25 points.
C12_Witness ==
  /\ Done("addRewardPointsToTransactions")
  /\ AllRecords(arg) /\ Len(arg.v) = 2
  /\ SameNumber(Get(arg.v[1], "amount"), Fin(120 * Scale + 25))
  /\ SameNumber(Get(arg.v[2], "amount"), Num(75))
  /\ ~ret.threw
  /\ SameNumber(ret.val.v[1].v["rewardPoints"], Num(91))
  /\ SameNumber(ret.val.v[2].v["rewardPoints"], Num(25))

\* The operations that are given a sequence of records or items.
SequenceOperations ==
  {"calculateTotalRewardPoints", "calculateRewardPointsByMonth",
   "addRewardPointsToTransactions", "calculatePagination",
   "getPaginatedCustomers"}

\* b is the element a: a record with exactly a's fields and values, or the
\* same value when a is no record.
SameElement(a, b) ==
  /\ a.t = b.t
  /\ IF a.t = "object"
       THEN /\ DOMAIN a.v = DOMAIN b.v
            /\ \A f \in DOMAIN a.v : a.v[f] = b.v[f]
       ELSE a = b

PositivePerPage(p) == p.t = "undefined" \/ (p.t = "fin" /\ p.v > 0)
PaginatedArray ==
  /\ Done("calculatePagination")
  /\ arg.t = "array"
  /\ PositivePerPage(params[2])

\* The call's requested page and page size as whole numbers, defaults applied.
RequestedPage == IF params[1].t = "undefined" THEN 1 ELSE params[1].v \div Scale
RequestedPerPage ==
  IF params[2].t = "undefined" THEN ITEMS_PER_PAGE ELSE params[2].v \div Scale

\* ceil(n / k) for n >= 0 and k > 0: the least q with q * k >= n.
SpecCeil(n, k) == CHOOSE q \in 0..n : q * k >= n /\ (q - 1) * k < n
SpecTotalPages == SpecCeil(Len(arg.v), RequestedPerPage)

\* The requested page clamped into 1..totalPages, 1 when there is no page.
SpecEffectivePage ==
  IF SpecTotalPages = 0 \/ RequestedPage < 1 THEN 1
  ELSE IF RequestedPage > SpecTotalPages THEN SpecTotalPages
  ELSE RequestedPage

SpecStartIndex == (SpecEffectivePage - 1) * RequestedPerPage + 1
SpecEndIndex ==
  IF SpecStartIndex + RequestedPerPage - 1 < Len(arg.v)
    THEN SpecStartIndex + RequestedPerPage - 1
    ELSE Len(arg.v)

\* C14: for every array and positive itemsPerPage, the items of the result
\* are exactly the input's elements at the 1-based positions
\* startIndex..endIndex, in input order, with startIndex =
\* (effectivePage - 1) * itemsPerPage + 1 and endIndex =
\* min(startIndex + itemsPerPage - 1, totalItems).
C14_PageItemsAreTheSlice ==
  PaginatedArray =>
    /\ ~ret.threw
    /\ SameNumber(ret.val.v.startIndex, Num(SpecStartIndex))
    /\ SameNumber(ret.val.v.endIndex, Num(SpecEndIndex))
    /\ ret.val.v.items.t = "array"
    /\ ret.val.v.items.v =
         [i \in 1..(SpecEndIndex - SpecStartIndex + 1) |->
            arg.v[SpecStartIndex + i - 1]]

C14_Witness ==
  /\ PaginatedArray
  /\ Len(arg.v) = 23
  /\ params[1].t = "fin" /\ params[1].v = 3 * Scale
  /\ params[2].t = "fin" /\ params[2].v = 10 * Scale
  /\ ret.val.v.items.v = <<Num(21), Num(22), Num(23)>>
  /\ SameNumber(ret.val.v.startIndex, Num(21))
  /\ SameNumber(ret.val.v.endIndex, Num(23))

\* C15: for every array, every whole requested page (0, negative and beyond
\* the last page included) and positive itemsPerPage, currentPage is the
\* requested page clamped into 1..totalPages (1 with an empty slice when
\* totalPages is 0), hasNextPage is true exactly when that page is below
\* totalPages and hasPrevPage exactly when it is above 1.
C15_PageClamped ==
  PaginatedArray =>
    /\ ~ret.threw
    /\ SameNumber(ret.val.v.currentPage, Num(SpecEffectivePage))
    /\ ret.val.v.hasNextPage.t = "boolean"
    /\ ret.val.v.hasNextPage.v = (SpecEffectivePage < SpecTotalPages)
    /\ ret.val.v.hasPrevPage.t = "boolean"
    /\ ret.val.v.hasPrevPage.v = (SpecEffectivePage > 1)
    /\ SpecTotalPages = 0 =>
         (SameNumber(ret.val.v.currentPage, Num(1)) /\ Len(ret.val.v.items.v) = 0)

C15_Witness ==
  /\ PaginatedArray
  /\ Len(arg.v) = 23
  /\ params[1].t = "fin" /\ params[1].v = 99 * Scale
  /\ params[2].t = "fin" /\ params[2].v = 10 * Scale
  /\ SameNumber(ret.val.v.currentPage, Num(3))
  /\ ~ret.val.v.hasNextPage.v
  /\ ret.val.v.hasPrevPage.v

\* C16: for every array and positive itemsPerPage, totalItems is the length
\* of the array and totalPages is ceil(totalItems / itemsPerPage), which is 0
\* exactly when the array is empty.
C16_TotalsAreLengthAndCeil ==
  PaginatedArray =>
    /\ ~ret.threw
    /\ SameNumber(ret.val.v.totalItems, Num(Len(arg.v)))
    /\ SameNumber(ret.val.v.totalPages, Num(SpecTotalPages))
    /\ SameNumber(ret.val.v.totalPages, Num(0)) <=> (Len(arg.v) = 0)

C16_Witness ==
  /\ PaginatedArray
  /\ Len(arg.v) = 23
  /\ params[2].t = "undefined"
  /\ SameNumber(ret.val.v.totalItems, Num(23))
  /\ SameNumber(ret.val.v.totalPages, Num(3))

\* Two pagination results agree on every field.
SameValue(x, y) ==
  /\ x.t = y.t
  /\ x.t \in {"fin", "boolean"} => x.v = y.v
SamePaginationResult(a, b) ==
  /\ Len(a.items.v) = Len(b.items.v)
  /\ \A f \in {"currentPage", "totalPages", "totalItems", "hasNextPage",
               "hasPrevPage", "startIndex", "endIndex"} : SameValue(a[f], b[f])

\* C17: for an items argument that is no array, and every currentPage and
\* itemsPerPage, the whole result of calculatePagination equals the result
\* of calculatePagination([], currentPage, itemsPerPage).
C17_NonArrayIsEmptyArray ==
  (Done("calculatePagination") /\ arg.t # "array") =>
    /\ ~ret.threw
    /\ SamePaginationResult(
         ret.val.v,
         calculatePagination(Arr(<<>>), params[1], params[2]).val.v)

\* x is a whole number, at least least.
IntegerFrom(x, least) == x.t = "fin" /\ x.v % Scale = 0 /\ x.v >= least * Scale
IsInteger(x) == x.t = "fin" /\ x.v % Scale = 0

\* C18: every result of calculatePagination, for any items, any whole
\* currentPage and any whole itemsPerPage (zero and negative included), has
\* currentPage a whole number >= 1, totalPages a whole number >= 0,
\* totalItems a whole number >= 0, and startIndex and endIndex whole numbers.
C18_ResultTypeInvariant ==
  Done("calculatePagination") =>
    /\ ~ret.threw
    /\ IntegerFrom(ret.val.v.currentPage, 1)
    /\ IntegerFrom(ret.val.v.totalPages, 0)
    /\ IntegerFrom(ret.val.v.totalItems, 0)
    /\ IsInteger(ret.val.v.startIndex)
    /\ IsInteger(ret.val.v.endIndex)

\* The whole-number arguments of a generatePageNumbers call.
WindowTotalPages == params[1].v \div Scale
WindowMaxDisplay ==
  IF Len(params) = 2 THEN params[2].v \div Scale ELSE MAX_PAGES_DISPLAY

\* C19: generatePageNumbers returns the empty sequence when totalPages <= 0;
\* otherwise, for maxDisplay >= 1, a contiguous strictly ascending run of
\* page numbers within 1..totalPages of length min(maxDisplay, totalPages).
C19_PageWindow ==
  Done("generatePageNumbers") =>
    /\ ~ret.threw
    /\ ret.val.t = "array"
    /\ WindowTotalPages <= 0 => Len(ret.val.v) = 0
    /\ (WindowTotalPages > 0 /\ WindowMaxDisplay >= 1) =>
         /\ Len(ret.val.v) =
              (IF WindowMaxDisplay < WindowTotalPages
                 THEN WindowMaxDisplay ELSE WindowTotalPages)
         /\ \A i \in 1..Len(ret.val.v) :
              /\ IntegerFrom(ret.val.v[i], 1)
              /\ ret.val.v[i].v <= WindowTotalPages * Scale
              /\ i > 1 => ret.val.v[i].v = ret.val.v[i - 1].v + Scale

C19_Witness ==
  /\ Done("generatePageNumbers")
  /\ arg.v = 5 * Scale
  /\ WindowTotalPages = 20
  /\ Len(params) = 2 /\ WindowMaxDisplay = 5
  /\ ret.val.v = <<Num(3), Num(4), Num(5), Num(6), Num(7)>>

\* Two ids, or two names, are the same.
SameField(x, y) == x.t = y.t /\ (x.t = "string" => x.v = y.v)

\* The positions of the transactions that are the first of their customerId.
FirstOfCustomer ==
  {i \in 1..Len(arg.v) :
     \A j \in 1..(i - 1) :
       ~SameField(Get(arg.v[j], "customerId"), Get(arg.v[i], "customerId"))}

\* The k-th of those positions, in input order.
KthFirst(k) ==
  CHOOSE i \in FirstOfCustomer : Cardinality({j \in FirstOfCustomer : j <= i}) = k

\* The customers before slicing: one per customerId, in the order of their
\* first transactions, each with the name of its first transaction.
SpecCustomers ==
  [k \in 1..Cardinality(FirstOfCustomer) |->
     Obj([customerId |-> Get(arg.v[KthFirst(k)], "customerId"),
          customerName |-> Get(arg.v[KthFirst(k)], "customerName")])]

SameCustomer(a, b) ==
  /\ a.t = "object" /\ b.t = "object"
  /\ DOMAIN a.v = {"customerId", "customerName"}
  /\ DOMAIN b.v = DOMAIN a.v
  /\ SameField(a.v.customerId, b.v.customerId)
  /\ SameField(a.v.customerName, b.v.customerName)

\* C20: getPaginatedCustomers returns the page of the customers derived from
\* the transactions, in which each distinct customerId appears exactly once,
\* customers are in the order of their first transactions, and each has the
\* customerName of the first transaction seen with its customerId.
C20_UniqueCustomersFirstSeen ==
  (Done("getPaginatedCustomers") /\ AllRecords(arg)) =>
    /\ ~ret.threw
    /\ LET page == calculatePagination(Arr(SpecCustomers), params[1],
                                       params[2]).val.v
       IN /\ SamePaginationResult(ret.val.v, page)
          /\ \A i \in 1..Len(page.items.v) :
               SameCustomer(ret.val.v.items.v[i], page.items.v[i])
    /\ SameNumber(ret.val.v.totalItems, Num(Cardinality(FirstOfCustomer)))

C20_Witness ==
  /\ Done("getPaginatedCustomers")
  /\ AllRecords(arg)
  /\ Len(arg.v) = 3
  /\ params[1].t = "undefined" /\ params[2].t = "undefined"
  /\ Get(arg.v[1], "customerId").t = "string"
  /\ SameField(Get(arg.v[3], "customerId"), Get(arg.v[1], "customerId"))
  /\ ~SameField(Get(arg.v[3], "customerName"), Get(arg.v[1], "customerName"))
  /\ ~SameField(Get(arg.v[2], "customerId"), Get(arg.v[1], "customerId"))
  /\ ~ret.threw
  /\ Len(ret.val.v.items.v) = 2
  /\ SameField(ret.val.v.items.v[1].v.customerName, Get(arg.v[1], "customerName"))
  /\ SameField(ret.val.v.items.v[2].v.customerId, Get(arg.v[2], "customerId"))

\* The sum of the values of a map's entries.
RECURSIVE SumOfValues(_)
SumOfValues(entries) ==
  IF entries = <<>> THEN Num(0)
  ELSE JsAdd(Head(entries).val, SumOfValues(Tail(entries)))

\* C21: for every array of transaction records, whatever their dates, the
\* values of the mapping returned by calculateRewardPointsByMonth add up to
\* calculateTotalRewardPoints of the same array.
C21_MonthsAddUpToTotal ==
  (Done("calculateRewardPointsByMonth") /\ AllRecords(arg)) =>
    /\ ~ret.threw
    /\ ret.val.t = "map"
    /\ ~calculateTotalRewardPoints(arg).threw
    /\ SameNumber(SumOfValues(ret.val.v), calculateTotalRewardPoints(arg).val)

C21_Witness ==
  /\ Done("calculateRewardPointsByMonth")
  /\ AllRecords(arg)
  /\ Len(arg.v) = 3
  /\ ~ret.threw
  /\ Len(ret.val.v) = 2
  /\ SameNumber(SumOfValues(ret.val.v), Num(365))
  /\ SameNumber(calculateTotalRewardPoints(arg).val, Num(365))

\* The items of page p of the call's array with the call's page size, and
\* the pages 1..n one after the other.
ItemsOfPage(p) == calculatePagination(arg, Num(p), params[2]).val.v.items.v
RECURSIVE PagesUpTo(_)
PagesUpTo(n) == IF n = 0 THEN <<>> ELSE PagesUpTo(n - 1) \o ItemsOfPage(n)

\* C22: for every array and positive itemsPerPage, the items of the pages
\* 1, 2, ..., totalPages, one after the other, are exactly the input array;
\* no page among them is empty, and every page but the last holds exactly
\* itemsPerPage items.
C22_PagesPartitionInput ==
  PaginatedArray =>
    /\ IntegerFrom(ret.val.v.totalPages, 0)
    /\ LET totalPages == ret.val.v.totalPages.v \div Scale
       IN /\ PagesUpTo(totalPages) = arg.v
          /\ \A p \in 1..totalPages :
               /\ Len(ItemsOfPage(p)) >= 1
               /\ p < totalPages => Len(ItemsOfPage(p)) = RequestedPerPage

C22_Witness ==
  /\ PaginatedArray
  /\ Len(arg.v) = 23
  /\ RequestedPerPage = 10
  /\ SameNumber(ret.val.v.totalPages, Num(3))
  /\ Len(ItemsOfPage(1)) = 10
  /\ Len(ItemsOfPage(2)) = 10
  /\ Len(ItemsOfPage(3)) = 3
  /\ ItemsOfPage(1) \o ItemsOfPage(2) \o ItemsOfPage(3) = arg.v

\* C23: for totalPages >= 1, maxDisplay >= 1 (odd or even) and
\* 1 <= currentPage <= totalPages, the sequence returned by
\* generatePageNumbers contains currentPage.
C23_WindowContainsCurrentPage ==
  (/\ Done("generatePageNumbers")
   /\ WindowTotalPages >= 1
   /\ WindowMaxDisplay >= 1
   /\ arg.v >= Scale
   /\ arg.v <= WindowTotalPages * Scale) =>
    /\ ~ret.threw
    /\ \E i \in 1..Len(ret.val.v) : SameNumber(ret.val.v[i], arg)

C23_Witness ==
  /\ Done("generatePageNumbers")
  /\ arg.v = 20 * Scale
  /\ WindowTotalPages = 20
  /\ Len(params) = 2 /\ WindowMaxDisplay = 4
  /\ ret.val.v = <<Num(17), Num(18), Num(19), Num(20)>>

\* A request of the given route has been answered with status 200.
Answered(route) == res.status = 200 /\ res.request.route = route

\* The loaded transactions of the customer the answered request names.
OfRequestedCustomer(t) ==
  SameField(Get(t, "customerId"), res.request.customerId)
CustomerTransactions == SelectSeq(transactionsData.v, OfRequestedCustomer)

\* C24: the response of GET /api/rewards/:customerId carries a totalPoints
\* equal to calculateTotalRewardPoints of that customer's loaded
\* transactions, whatever their amounts (strings, null, zero, negative,
\* fractional), and a transactionCount equal to their number.
C24_ServerTotalMatchesLibrary ==
  Answered("rewards") =>
    /\ ~calculateTotalRewardPoints(Arr(CustomerTransactions)).threw
    /\ SameNumber(res.body.v.totalPoints,
                  calculateTotalRewardPoints(Arr(CustomerTransactions)).val)
    /\ SameNumber(res.body.v.transactionCount, Num(Len(CustomerTransactions)))

\* The whole number a query parameter spells (none: -1), and the calendar
\* month and year written in a transaction's date.
ParamNumber(p) ==
  IF p.t = "string" /\ p.v # <<>> /\ AllDigits(p.v) THEN DigitsVal(p.v) ELSE 0 - 1
DateMonth(t) == DigitsVal(SubSeq(Get(t, "date").v, 6, 7))
DateYear(t) == DigitsVal(SubSeq(Get(t, "date").v, 1, 4))
Given(p) == p.t = "string" /\ p.v # <<>>

\* C25: the response of GET /api/transactions holds, when customerId, month
\* and year are all given, only transactions of that customer dated in that
\* month and year; when only customerId is given, only transactions of that
\* customer; and when no parameter is given, all loaded transactions in load
\* order.
C25_FiltersByGivenParameters ==
  Answered("transactions") =>
    LET q == res.request
        sent == res.body.v
    IN /\ (Given(q.customerId) /\ Given(q.month) /\ Given(q.year)) =>
            \A i \in 1..Len(sent) :
              /\ SameField(Get(sent[i], "customerId"), q.customerId)
              /\ DateMonth(sent[i]) = ParamNumber(q.month)
              /\ DateYear(sent[i]) = ParamNumber(q.year)
       /\ (Given(q.customerId) /\ ~Given(q.month) /\ ~Given(q.year)) =>
            \A i \in 1..Len(sent) :
              SameField(Get(sent[i], "customerId"), q.customerId)
       /\ (~Given(q.customerId) /\ ~Given(q.month) /\ ~Given(q.year)) =>
            sent = transactionsData.v

\* A request handler has read transactionsData: a response was sent or is
\* waiting for its timer.
HandlerHasRun == res.status # 0 \/ timers # <<>>

\* transactionsData holds the value parsed from the file.
HoldsParsedFile ==
  /\ load = "done"
  /\ file.t # "undefined"
  /\ transactionsData.t = file.t
  /\ transactionsData = file

\* C26: the server listens only after loadTransactions has completed
\* successfully, so a request handler reads transactionsData only when it
\* holds the parsed file; when loading fails the process has exited with
\* status 1 and does not listen.
C26_ListenOnlyAfterLoad ==
  /\ listening => HoldsParsedFile
  /\ HandlerHasRun => HoldsParsedFile
  /\ load = "failed" => (exited /\ exitCode = 1 /\ ~listening /\ ~HandlerHasRun)
  /\ exited => load = "failed"

C26_Witness ==
  /\ listening
  /\ HoldsParsedFile
  /\ Answered("customers")
  /\ Len(transactionsData.v) = 2
  /\ Len(res.body.v) = 2

=============================================================================
